---- MODULE Spec2Model ----
(***************************************************************************)
(* Model of aiodabpumps' DabPumpsApi: the login state machine              *)
(* (async_login / async_logout / async_close), the four login flows and    *)
(* the response classification of _async_send_request.                     *)
(*                                                                         *)
(* One client instance, one calling task.  Every network request is an     *)
(* await point: an action issues the request and leaves pc = "await";     *)
(* Respond delivers a response chosen by the backend and runs the code up  *)
(* to the next request or to the end of async_login.                       *)
(***************************************************************************)
EXTENDS Integers, Sequences, FiniteSets, TLC

(* ---- bounds ---- *)
MaxTime == 2          \* the clock runs over 0..MaxTime seconds
ExpSpan == 2          \* token expiries reach TimeMin + ExpSpan

(* ---- program constants ---- *)
DABPUMPS_API_TOKEN_TIME_MIN == 10

(* ---- login methods (API_LOGIN) ---- *)
NoMethod == "None"
DABLIVE_APP_1 == "DABLIVE_APP_1"
DABLIVE_APP_0 == "DABLIVE_APP_0"
DCONNECT_APP == "DCONNECT_APP"
DCONNECT_WEB == "DCONNECT_WEB"
API_LOGIN == {DABLIVE_APP_1, DABLIVE_APP_0, DCONNECT_APP, DCONNECT_WEB}

(* ---- tokens: the value of the token cookie / of access_token ---- *)
(* kind "jwt" decodes to a payload that has an exp claim or not;          *)
(* kind "garbage" is a non-empty string jwt.decode rejects.               *)
NoToken == [kind |-> "none", hasExp |-> FALSE, exp |-> 0]
GarbageToken == [kind |-> "garbage", hasExp |-> FALSE, exp |-> 0]
NoExpToken == [kind |-> "jwt", hasExp |-> FALSE, exp |-> 0]
ExpValues == {0} \cup (DABPUMPS_API_TOKEN_TIME_MIN .. DABPUMPS_API_TOKEN_TIME_MIN + ExpSpan)
JwtToken(e) == [kind |-> "jwt", hasExp |-> TRUE, exp |-> e]
Tokens == {GarbageToken, NoExpToken} \cup {JwtToken(e) : e \in ExpValues}

(* ---- exceptions ---- *)
AuthError == "DabPumpsApiAuthError"
RightsError == "DabPumpsApiRightsError"
ApiError == "DabPumpsApiError"
DataError == "DabPumpsApiDataError"
AttributeError == "AttributeError"
TypeError == "TypeError"
DecodeError == "jwt.DecodeError"
\* what the transport raises on a true transport failure (DNS, TLS,
\* connection refused, timeout)
TransportError == "TransportError"
\* an exception object: its class, the method and step that raised it and the
\* number of the attempt it was raised in (two raises are two objects)
NoError == [kind |-> "none", method |-> NoMethod, step |-> 0, att |-> 0]
Exc(k, m, s, a) == [kind |-> k, method |-> m, step |-> s, att |-> a]

VARIABLES
    now,            \* time.time(), in seconds
    cookies,        \* the transport's cookie store: [token, other]
    closed,         \* the transport has been closed
    login_method,   \* DabPumpsApi._login_method
    pc,             \* "idle", or "await": a request of async_login is in flight
    methods,        \* async_login's local list of candidates
    idx,            \* position in methods of the candidate being attempted
    step,           \* the request of the flow that is in flight (1 or 2)
    error,          \* async_login's local `error`
    ctoken,         \* the flow's local `token` (step 1 of DCONNECT_APP)
    nreq,           \* requests issued by the current / last call
    attempts,       \* methods attempted by the current / last async_login
    lastEx,         \* the exception raised by the most recent failed attempt
    exCookies,      \* some cookie was in the store when lastEx was raised
    lastReq,        \* the response last handled by _async_send_request and its outcome
    result,         \* how the last call ended
    diagnostics_callback,   \* a callback is registered (set_diagnostics)
    ndiag,          \* calls of the callback made by the current / last call
    install_map,    \* the cached ids of the installations
    device_map,     \* serial -> device
    config_map,     \* the cached configuration ids
    status_map,     \* status key -> status
    string_map,     \* the cached message keys
    string_map_lang,
    user_role,
    op,             \* the fetch / change operation whose request is in flight
    pc2, methods2, idx2, step2, error2, ctoken2,  \* a second task's async_login
    result2         \* how the second task's last call ended

diagVars == <<diagnostics_callback, ndiag>>
dataVars == <<install_map, device_map, config_map, status_map, string_map,
              string_map_lang, user_role>>
task2Vars == <<pc2, methods2, idx2, step2, error2, ctoken2, result2>>
vars == <<now, cookies, closed, login_method, pc, methods, idx, step, error,
          ctoken, nreq, attempts, lastEx, exCookies, lastReq, result,
          diagVars, dataVars, op, task2Vars>>

(* ---- transport adapter (dabpumps_client): cookie store and responses ---- *)
EmptyCookies == [token |-> NoToken, other |-> FALSE]
CookieStores == [token : {NoToken} \cup Tokens, other : BOOLEAN]

\* get_cookie(domain, name) -> value | absent
client_get_cookie(c) == c.token
\* set_cookie(domain, name, value)
client_set_cookie(c, t) == [c EXCEPT !.token = t]
\* clear_cookies(): forgets all cookies, keeps the transport
client_clear_cookies(c) == EmptyCookies

\* A normalized response: success flag, the body (decoded JSON, text, or
\* none) and the cookies its Set-Cookie headers leave in the cookie store.
\*   res: "absent", or the value of the JSON field res; "" stands for
\*        every value Python takes as false (null, false, 0, empty)
\*   code: the value json.get('code', '') yields
\*   access_token: NoToken when the field is absent, null or empty
\*   action: the text holds an action="..." attribute
ResValues == {"absent", "", "OK", "ERROR"}
CodeValues == {"", "FORBIDDEN", "OTHER"}
CookieTokens == {NoToken, GarbageToken, JwtToken(DABPUMPS_API_TOKEN_TIME_MIN + ExpSpan)}
Resp(ok, b, r, c, t, a, sc, so) ==
    [success |-> ok, body |-> b, res |-> r, code |-> c, access_token |-> t,
     action |-> a, setcookie |-> sc, setother |-> so]
FailResponses == {Resp(FALSE, "none", "absent", "", NoToken, FALSE, NoToken, FALSE)}
JsonResponses ==
    {Resp(TRUE, "json", r, c, NoToken, FALSE, NoToken, FALSE) :
        r \in ResValues, c \in CodeValues}
    \cup {Resp(TRUE, "json", r, "", t, FALSE, NoToken, FALSE) :
        r \in {"absent", "OK"}, t \in Tokens}
TextResponses ==
    {Resp(TRUE, "text", "absent", "", NoToken, a, sc, so) :
        a \in BOOLEAN, sc \in CookieTokens, so \in BOOLEAN}
EmptyResponses ==
    {Resp(TRUE, "none", "absent", "", NoToken, FALSE, sc, FALSE) : sc \in CookieTokens}
\* no response at all: send() throws
ExcResponses == {Resp(FALSE, "exception", "absent", "", NoToken, FALSE, NoToken, FALSE)}
Responses ==
    FailResponses \cup JsonResponses \cup TextResponses \cup EmptyResponses \cup ExcResponses

\* send(request): the engine stores the cookies the response sets
client_receive(c, resp) ==
    [token |-> IF resp.setcookie # NoToken THEN resp.setcookie ELSE c.token,
     other |-> c.other \/ resp.setother]

(* ---- _async_send_request: classification of a response ---- *)
Raised(k) == [raised |-> k, value |-> "-"]
Returned(v) == [raised |-> "none", value |-> v]
\* Python truth value of json.get('res', None)
Truthy(res) == res \notin {"absent", ""}
\* variant: FORBIDDEN is not told apart from the other codes
async_send_request_NoRights(resp) ==
    IF resp.body = "exception" THEN Raised(TransportError)
    ELSE IF ~resp.success THEN Raised(ApiError)
    ELSE IF resp.body = "text" THEN Returned("text")
    ELSE IF resp.body = "json" THEN
        IF Truthy(resp.res) /\ resp.res # "OK" THEN Raised(ApiError) ELSE Returned("json")
    ELSE Returned("none")
async_send_request(resp) ==
    IF resp.body = "exception" THEN Raised(TransportError)   \* nothing catches it
    ELSE IF ~resp.success THEN Raised(ApiError)
    ELSE IF resp.body = "text" THEN Returned("text")
    ELSE IF resp.body = "json" THEN
        IF Truthy(resp.res) /\ resp.res # "OK"
        THEN IF resp.code \in {"FORBIDDEN"} THEN Raised(RightsError) ELSE Raised(ApiError)
        ELSE Returned("json")
    ELSE Returned("none")

(* ---- the login flows ---- *)
\* How a flow goes on after a response: it raises, it issues its second
\* request, or it ends with success.
FlowRaise(k, c) == [status |-> "raise", kind |-> k, cookies |-> c, token |-> NoToken]
FlowNext(c, t) == [status |-> "next", kind |-> "none", cookies |-> c, token |-> t]
FlowOk(c) == [status |-> "ok", kind |-> "none", cookies |-> c, token |-> NoToken]

\* _async_login_dablive_app(isDabLive): c is the cookie store after the response
login_dablive_app(resp, c) ==
    LET r == async_send_request(resp) IN
    IF r.raised # "none" THEN FlowRaise(r.raised, c)
    ELSE IF r.value # "json" THEN FlowRaise(AttributeError, c)   \* result.get on str / None
    ELSE IF resp.access_token = NoToken THEN FlowRaise(AuthError, c)
    ELSE FlowOk(client_set_cookie(c, resp.access_token))

\* variant: the token is stored as soon as step 1 has found it
login_dconnect_app_EarlyCookie(st, resp, c, tok) ==
    LET r == async_send_request(resp) IN
    IF r.raised # "none" THEN FlowRaise(r.raised, c)
    ELSE IF st = 1 THEN
        IF r.value # "json" THEN FlowRaise(AttributeError, c)
        ELSE IF resp.access_token = NoToken THEN FlowRaise(AuthError, c)
        ELSE FlowNext(client_set_cookie(c, resp.access_token), resp.access_token)
    ELSE FlowOk(client_set_cookie(c, tok))
\* _async_login_dconnect_app: st is the step whose response arrived, tok the
\* access token step 1 found
login_dconnect_app(st, resp, c, tok) ==
    LET r == async_send_request(resp) IN
    IF r.raised # "none" THEN FlowRaise(r.raised, c)
    ELSE IF st = 1 THEN
        IF r.value # "json" THEN FlowRaise(AttributeError, c)
        ELSE IF resp.access_token = NoToken THEN FlowRaise(AuthError, c)
        ELSE FlowNext(c, resp.access_token)
    ELSE FlowOk(client_set_cookie(c, tok))

\* variant: the token cookie is not looked for after step 2
login_dconnect_web_NoCookieCheck(st, resp, c) ==
    LET r == async_send_request(resp) IN
    IF r.raised # "none" THEN FlowRaise(r.raised, c)
    ELSE IF st = 1 THEN
        IF r.value # "text" THEN FlowRaise(TypeError, c)
        ELSE IF ~resp.action THEN FlowRaise(AuthError, c)
        ELSE FlowNext(c, NoToken)
    ELSE FlowOk(c)

\* _async_login_dconnect_web
login_dconnect_web(st, resp, c) ==
    LET r == async_send_request(resp) IN
    IF r.raised # "none" THEN FlowRaise(r.raised, c)
    ELSE IF st = 1 THEN
        IF r.value # "text" THEN FlowRaise(TypeError, c)         \* re.search on dict / None
        ELSE IF ~resp.action THEN FlowRaise(AuthError, c)
        ELSE FlowNext(c, NoToken)
    ELSE IF client_get_cookie(c) = NoToken THEN FlowRaise(AuthError, c)
    ELSE FlowOk(c)

\* the match statement of async_login
LoginFlow(m, st, resp, c, tok) ==
    CASE m = DABLIVE_APP_1 -> login_dablive_app(resp, c)
      [] m = DABLIVE_APP_0 -> login_dablive_app(resp, c)
      [] m = DCONNECT_APP -> login_dconnect_app(st, resp, c, tok)
      [] m = DCONNECT_WEB -> login_dconnect_web(st, resp, c)

(* ---- async_login ---- *)
\* jwt.decode(token, verify_signature=False): the payload, or DecodeError
Decodable(t) == t.kind = "jwt"
\* token_payload.get("exp", 0)
PayloadExp(t) == IF t.hasExp THEN t.exp ELSE 0
\* the test of the token-reuse fast path
\* variant: a margin one second too wide
TokenStillValid_WideMargin(t, time) == PayloadExp(t) - time > DABPUMPS_API_TOKEN_TIME_MIN + 1
\* variant: the comparison is not strict
TokenStillValid_NotStrict(t, time) == PayloadExp(t) - time >= DABPUMPS_API_TOKEN_TIME_MIN
TokenStillValid(t, time) == PayloadExp(t) - time > DABPUMPS_API_TOKEN_TIME_MIN

\* the candidate list
\* variant: the static order only
CandidateList_Static(lm) == <<NoMethod, DABLIVE_APP_1, DABLIVE_APP_0, DCONNECT_APP, DCONNECT_WEB>>
\* variant: the most complex flow first
CandidateList_Reversed(lm) == <<lm, DCONNECT_WEB, DCONNECT_APP, DABLIVE_APP_0, DABLIVE_APP_1>>
CandidateList(lm) == <<lm, DABLIVE_APP_1, DABLIVE_APP_0, DCONNECT_APP, DCONNECT_WEB>>
\* the first position from i on that holds a method (`case _: continue`
\* skips the others); 0 when the list is exhausted
\* variant: no fallback after the first method that is attempted
NextCandidate_NoFallback(ms, i) ==
    IF i = 1 /\ ms[1] \in API_LOGIN THEN 1 ELSE IF i <= 2 THEN 2 ELSE 0
\* variant: after a failure the same candidate is taken again
NextCandidate_Again(ms, i) ==
    IF i = 1 THEN (IF ms[1] \in API_LOGIN THEN 1 ELSE 2) ELSE i - 1
RECURSIVE NextCandidate(_, _)
NextCandidate(ms, i) ==
    IF i > Len(ms) THEN 0
    ELSE IF ms[i] \in API_LOGIN THEN i
    ELSE NextCandidate(ms, i + 1)
\* `error = ex`
\* variant: the first error is kept
CapturedError_First(old, ex) == IF old = NoError THEN ex ELSE old
CapturedError(old, ex) == ex
\* `self._login_method = method`
\* variant: the method is not recorded
RememberMethod_Keep(old, m) == old
\* variant: a success while a method is remembered forgets it
RememberMethod_Forget(old, m) == IF old = NoMethod THEN m ELSE NoMethod
RememberMethod(old, m) == m
\* async_logout's effect on the cookie store
\* variants: nothing is cleared; the token cookie survives
LogoutCookies_Keep(c) == c
LogoutCookies_KeepToken(c) == [c EXCEPT !.other = FALSE]
\* variant: only the token cookie is removed
LogoutCookies_TokenOnly(c) == [c EXCEPT !.token = NoToken]
LogoutCookies(c) == client_clear_cookies(c)

NoReq == [success |-> FALSE, body |-> "-", res |-> "-", code |-> "-",
          raised |-> "-", value |-> "-"]
ReqLog(resp) ==
    LET r == async_send_request(resp) IN
    [success |-> resp.success, body |-> resp.body, res |-> resp.res,
     code |-> resp.code, raised |-> r.raised, value |-> r.value]
\* an empty dict
EmptyMap == [k \in {} |-> "-"]
\* no fetch / change operation is running
NoOp == [name |-> "none", arg |-> "-"]
\* one more call of the diagnostics callback, if one is registered
\* (_async_update_diagnostics)
update_diagnostics(cb, n) == IF cb THEN n + 1 ELSE n
\* how a call ended; after: the call that ended before it
\* seen, at: the token a login() found and when, kept only while its first
\* request is in flight
Result(o, st, ru, e, a) ==
    [op |-> o, status |-> st, reuse |-> ru, err |-> e, after |-> a,
     seen |-> NoToken, at |-> 0]
Forget(r) == [r EXCEPT !.seen = NoToken, !.at = 0]

\* the caches of the client as one value
Cache(im, dm, cm, sm, st, sl, ur) ==
    [install_map |-> im, device_map |-> dm, config_map |-> cm, status_map |-> sm,
     string_map |-> st, string_map_lang |-> sl, user_role |-> ur]
\* the caches as they are now
self_cache ==
    Cache(install_map, device_map, config_map, status_map, string_map,
          string_map_lang, user_role)
\* the caches become c
StoreCache(c) ==
    /\ install_map' = c.install_map
    /\ device_map' = c.device_map
    /\ config_map' = c.config_map
    /\ status_map' = c.status_map
    /\ string_map' = c.string_map
    /\ string_map_lang' = c.string_map_lang
    /\ user_role' = c.user_role

\* variant: a new session starts with empty caches
LoginCache_Reset(c) == Cache({}, EmptyMap, {}, EmptyMap, {}, "None", "CUSTOMER")
\* the caches after a step of async_login or async_logout: neither assigns one
LoginCache(c) == c

\* the client after __init__, but for the cookie store of its engine
InitClient ==
    /\ now = 0
    /\ closed = FALSE
    /\ login_method = NoMethod
    /\ pc = "idle"
    /\ methods = CandidateList(NoMethod)
    /\ idx = 0
    /\ step = 0
    /\ error = NoError
    /\ ctoken = NoToken
    /\ nreq = 0
    /\ attempts = <<>>
    /\ lastEx = NoError
    /\ exCookies = FALSE
    /\ lastReq = NoReq
    /\ result = Result("none", "none", FALSE, NoError, "none")
    /\ diagnostics_callback = FALSE
    /\ ndiag = 0
    /\ install_map = {}
    /\ device_map = EmptyMap
    /\ config_map = {}
    /\ status_map = EmptyMap
    /\ string_map = {}
    /\ string_map_lang = "None"
    /\ user_role = "CUSTOMER"
    /\ op = NoOp
    /\ pc2 = "idle"
    /\ methods2 = CandidateList(NoMethod)
    /\ idx2 = 0
    /\ step2 = 0
    /\ error2 = NoError
    /\ ctoken2 = NoToken
    /\ result2 = "none"

\* a client built on the default engine
Init ==
    /\ cookies = EmptyCookies
    /\ InitClient

\* time passes
Tick ==
    /\ now < MaxTime
    /\ now' = now + 1
    /\ UNCHANGED <<cookies, closed, login_method, pc, methods, idx, step, error,
                   ctoken, nreq, attempts, lastEx, exCookies, lastReq, result,
                   diagVars, dataVars, op, task2Vars>>

\* async_login up to its first request (or to its return)
async_login ==
    /\ pc = "idle"
    /\ ~closed
    /\ LET token == client_get_cookie(cookies) IN
       IF token # NoToken /\ ~Decodable(token) THEN
            \* jwt.decode raises
            /\ result' = Result("login", "raised", FALSE, Exc(DecodeError, NoMethod, 0, 0), result.op)
            /\ nreq' = 0
            /\ attempts' = <<>>
            /\ lastEx' = NoError
            /\ exCookies' = FALSE
            /\ lastReq' = NoReq
            /\ ndiag' = 0
            /\ UNCHANGED <<cookies, login_method, pc, methods, idx, step, error, ctoken>>
       ELSE IF token # NoToken /\ TokenStillValid(token, now) THEN
            \* token reuse
            /\ result' = Result("login", "returned", TRUE, NoError, result.op)
            /\ nreq' = 0
            /\ attempts' = <<>>
            /\ lastEx' = NoError
            /\ exCookies' = FALSE
            /\ lastReq' = NoReq
            /\ ndiag' = update_diagnostics(diagnostics_callback, 0)   \* "token reuse"
            /\ UNCHANGED <<cookies, login_method, pc, methods, idx, step, error, ctoken>>
       ELSE
            LET ms == CandidateList(login_method)
                j == NextCandidate(ms, 1)
            IN  /\ cookies' = LogoutCookies(cookies)
                /\ error' = NoError
                /\ methods' = ms
                /\ idx' = j
                /\ step' = 1
                /\ ctoken' = NoToken
                /\ pc' = "await"
                /\ nreq' = 1
                /\ attempts' = <<ms[j]>>
                /\ lastEx' = NoError
                /\ exCookies' = FALSE
                /\ lastReq' = NoReq
                /\ result' = [Result("login", "running", FALSE, NoError, result.op)
                                 EXCEPT !.seen = token, !.at = now]
                /\ ndiag' = 0
                /\ UNCHANGED login_method
    /\ StoreCache(LoginCache(self_cache))
    /\ UNCHANGED <<now, closed, diagnostics_callback, op, task2Vars>>

CancelledError == "CancelledError"
\* variant: every exception is caught
Caught_All(kind) == TRUE
\* `except Exception`: asyncio.CancelledError derives from BaseException
Caught(kind) == kind # CancelledError

\* the flow of method m has raised an exception of this kind, with jar as the
\* cookie store: the except branch of the loop, the logout after it and the
\* end of the loop, or the exception leaves async_login
LoopRaise(m, kind, jar) ==
    LET ex == Exc(kind, m, step, Len(attempts))
        err == CapturedError(error, ex)
        j == NextCandidate(methods, idx + 1)
    IN  /\ lastEx' = ex
        /\ exCookies' = (jar # EmptyCookies)
        /\ ctoken' = NoToken
        /\ IF ~Caught(kind) THEN
                /\ cookies' = jar
                /\ pc' = "idle"
                /\ result' = Result("login", "raised", FALSE, ex, result.after)
                /\ methods' = CandidateList(NoMethod)
                /\ idx' = 0
                /\ step' = 0
                /\ error' = NoError
                /\ UNCHANGED <<login_method, nreq, attempts>>
           ELSE IF j # 0 THEN
                /\ cookies' = LogoutCookies(jar)
                /\ error' = err
                /\ idx' = j
                /\ step' = 1
                /\ nreq' = nreq + 1
                /\ attempts' = Append(attempts, methods[j])
                /\ result' = Forget(result)
                /\ UNCHANGED <<login_method, pc, methods>>
           ELSE
                /\ cookies' = LogoutCookies(jar)
                /\ pc' = "idle"
                /\ result' = IF err # NoError
                             THEN Result("login", "raised", FALSE, err, result.after)
                             ELSE Result("login", "returned", FALSE, NoError, result.after)
                /\ methods' = CandidateList(NoMethod)
                /\ idx' = 0
                /\ step' = 0
                /\ error' = NoError
                /\ UNCHANGED <<login_method, nreq, attempts>>

\* the response to the request in flight arrives; async_login runs on to its
\* next request or to its end
Respond(resp) ==
    /\ pc = "await"
    /\ LET m == methods[idx]
           out == LoginFlow(m, step, resp, client_receive(cookies, resp), ctoken)
       IN
       /\ lastReq' = ReqLog(resp)
       /\ ndiag' = IF resp.body = "exception" THEN ndiag
                   ELSE update_diagnostics(diagnostics_callback, ndiag)
       /\ CASE out.status = "next" ->
                /\ step' = 2
                /\ ctoken' = out.token
                /\ cookies' = out.cookies
                /\ nreq' = nreq + 1
                /\ result' = Forget(result)
                /\ UNCHANGED <<login_method, pc, methods, idx, error, attempts, lastEx,
                               exCookies>>
            [] out.status = "ok" ->
                /\ login_method' = RememberMethod(login_method, m)
                /\ cookies' = out.cookies
                /\ pc' = "idle"
                /\ result' = Result("login", "returned", FALSE, NoError, result.after)
                /\ methods' = CandidateList(NoMethod)
                /\ idx' = 0
                /\ step' = 0
                /\ error' = NoError
                /\ ctoken' = NoToken
                /\ UNCHANGED <<nreq, attempts, lastEx, exCookies>>
            [] out.status = "raise" -> LoopRaise(m, out.kind, out.cookies)
    /\ StoreCache(LoginCache(self_cache))
    /\ UNCHANGED <<now, closed, diagnostics_callback, op, task2Vars>>

\* the task that runs async_login is cancelled while a request is awaited:
\* the await of line 683 raises CancelledError
Cancel ==
    /\ pc = "await"
    /\ LoopRaise(methods[idx], CancelledError, cookies)
    /\ StoreCache(LoginCache(self_cache))
    /\ UNCHANGED <<now, closed, lastReq, diagVars, op, task2Vars>>

\* async_logout
async_logout ==
    /\ pc = "idle"
    /\ ~closed
    /\ cookies' = LogoutCookies(cookies)
    /\ nreq' = 0
    /\ attempts' = <<>>
    /\ lastEx' = NoError
    /\ exCookies' = FALSE
    /\ lastReq' = NoReq
    /\ result' = Result("logout", "returned", FALSE, NoError, result.op)
    /\ ndiag' = 0
    /\ StoreCache(LoginCache(self_cache))
    /\ UNCHANGED <<now, closed, login_method, pc, methods, idx, step, error, ctoken,
                   diagnostics_callback, op, task2Vars>>

\* async_close
async_close ==
    /\ pc = "idle"
    /\ ~closed
    /\ closed' = TRUE
    /\ nreq' = 0
    /\ attempts' = <<>>
    /\ lastEx' = NoError
    /\ exCookies' = FALSE
    /\ lastReq' = NoReq
    /\ result' = Result("close", "returned", FALSE, NoError, result.op)
    /\ ndiag' = 0
    /\ UNCHANGED <<now, cookies, login_method, pc, methods, idx, step, error, ctoken,
                   diagnostics_callback, dataVars, op, task2Vars>>

Next ==
    \/ Tick
    \/ async_login
    \/ \E resp \in Responses : Respond(resp)
    \/ async_logout
    \/ async_close

Spec == Init /\ [][Next]_vars

\* set_diagnostics(callback): registers a callback, or none
set_diagnostics(cb) ==
    /\ pc = "idle"
    /\ ~closed
    /\ diagnostics_callback' = cb
    /\ nreq' = 0
    /\ ndiag' = 0
    /\ attempts' = <<>>
    /\ lastEx' = NoError
    /\ exCookies' = FALSE
    /\ lastReq' = NoReq
    /\ result' = Result("set_diagnostics", "returned", FALSE, NoError, result.op)
    /\ UNCHANGED <<now, cookies, closed, login_method, pc, methods, idx, step, error,
                   ctoken, dataVars, op, task2Vars>>

\* the client with its diagnostics hook, at one moment in time
NextDiag ==
    \/ async_login
    \/ \E resp \in Responses : Respond(resp)
    \/ async_logout
    \/ \E cb \in BOOLEAN : set_diagnostics(cb)
SpecDiag == Init /\ [][NextDiag]_vars

\* logins that may be cancelled, at one moment in time
NextCancel ==
    \/ async_login
    \/ \E resp \in Responses : Respond(resp)
    \/ Cancel
    \/ async_logout
SpecCancel == Init /\ [][NextCancel]_vars

\* logins whose every request is answered: each transport call returns or
\* raises
NextLive ==
    \/ async_login
    \/ \E resp \in Responses : Respond(resp)
    \/ async_logout
SpecLive ==
    /\ Init
    /\ [][NextLive]_vars
    /\ WF_vars(\E resp \in Responses : Respond(resp))

(* ---- the cached data and the operations that fetch it ---- *)
InstallIds == {"i1"}             \* the installation the caller asks for
OtherInstallIds == {"i2"}        \* one the backend may answer with instead
Serials == {"s1", "s2"}
ConfigIds == {"c1", "c2"}
Keys == {"k1"}
Vals == {"v1", "v2"}
Roles == {"CUSTOMER", "INSTALLER"}
Langs == {"en"}
MaxDums == 2

JSONDecodeError == "JSONDecodeError"

\* how the processing of a response ends: what is raised, and the caches it leaves
FetchOut(ex, c) == [raised |-> ex, cache |-> c]

\* create_id(serial, key): the key of a status in status_map
create_id(serial, key) == <<serial, key>>
\* dict.update
DictUpdate(m, n) ==
    [k \in (DOMAIN m) \cup (DOMAIN n) |-> IF k \in DOMAIN n THEN n[k] ELSE m[k]]

(* payloads of the backend, one shape for each request *)
NoData == [kind |-> "none"]
InstallListData == {[values |-> v] : v \in SUBSET InstallIds}
Dums == [serial : Serials \cup {""}, configuration_id : ConfigIds \cup {""}]
DumLists == UNION {[1..n -> Dums] : n \in 0..MaxDums}
InstallDetailsData ==
    [installation_id : InstallIds \cup OtherInstallIds \cup {""}, dums : DumLists,
     user_role : Roles]
DeviceConfigData == [configuration_id : ConfigIds \cup {""}]
\* the status text: absent or empty, not JSON at all, or a JSON object
StatusData ==
    {[text |-> t, values |-> EmptyMap] : t \in {"absent", "garbage", "json"}}
    \cup {[text |-> "json", values |-> v] : v \in [Keys -> Vals \cup {"h"}]}
StringsData == [bundle : Langs, messages : SUBSET {"m1"}]
Payloads(name) ==
    CASE name = "fetch_install_list" -> InstallListData
      [] name = "fetch_install_details" -> InstallDetailsData
      [] name = "fetch_device_config" -> DeviceConfigData
      [] name = "fetch_device_statusses" -> StatusData
      [] name = "fetch_strings" -> StringsData
      [] OTHER -> {NoData}

DataResp(ok, b, r, c, d) == [success |-> ok, body |-> b, res |-> r, code |-> c, data |-> d]
ForbiddenResponse == DataResp(TRUE, "json", "ERROR", "FORBIDDEN", NoData)
\* the responses that carry no payload
EnvelopeResponses ==
    {DataResp(FALSE, "none", "absent", "", NoData),
     DataResp(FALSE, "exception", "absent", "", NoData),
     ForbiddenResponse,
     DataResp(TRUE, "json", "ERROR", "OTHER", NoData),
     DataResp(TRUE, "text", "absent", "", NoData),
     DataResp(TRUE, "none", "absent", "", NoData)}
DataResponses(name) ==
    EnvelopeResponses
    \cup {DataResp(TRUE, "json", "absent", "", d) : d \in Payloads(name)}
    \cup (IF name = "change_device_status"
          THEN {DataResp(TRUE, "json", "", "", NoData)}    \* an empty res
          ELSE {})

(* the processing of the raw data: v is what _async_send_request returned
   ("json", "text" or "none"), d the JSON, c the caches before the call *)

\* variant: the new install_map is stored before the sanity check
fetch_install_list_StoreFirst(v, d, c) ==
    IF v # "json" THEN FetchOut(AttributeError, c)
    ELSE LET new_map == d.values IN
         IF new_map = {} THEN FetchOut(DataError, [c EXCEPT !.install_map = new_map])
         ELSE FetchOut("none", [c EXCEPT !.install_map = new_map])
fetch_install_list(v, d, c) ==
    IF v # "json" THEN FetchOut(AttributeError, c)       \* raw.get on a str or None
    ELSE LET new_map == d.values IN
         IF new_map = {} THEN FetchOut(DataError, c)
         ELSE FetchOut("none", [c EXCEPT !.install_map = new_map])

\* the device of the last dum with this serial
DeviceOf(dums, serial, install_id) ==
    LET i == CHOOSE i \in 1..Len(dums) :
                 /\ dums[i].serial = serial
                 /\ \A j \in (i+1)..Len(dums) : dums[j].serial # serial
    IN [serial |-> serial, config_id |-> dums[i].configuration_id,
        install_id |-> install_id]
\* variant: the cached configurations and statuses are not cleaned up
fetch_install_details_NoCleanup(install_id, v, d, c) ==
    IF v # "json" THEN FetchOut(AttributeError, c)
    ELSE IF d.installation_id # install_id THEN FetchOut(DataError, c)
    ELSE IF \E i \in 1..Len(d.dums) :
                d.dums[i].serial = "" \/ d.dums[i].configuration_id = ""
         THEN FetchOut(DataError, c)
    ELSE LET serial_list == {d.dums[i].serial : i \in 1..Len(d.dums)}
         IN IF serial_list = {} THEN FetchOut(DataError, c)
            ELSE FetchOut("none",
                          [c EXCEPT !.device_map = [s \in serial_list |->
                                                      DeviceOf(d.dums, s, install_id)],
                                    !.user_role = d.user_role])
fetch_install_details(install_id, v, d, c) ==
    IF v # "json" THEN FetchOut(AttributeError, c)
    ELSE IF d.installation_id # install_id THEN FetchOut(DataError, c)
    ELSE IF \E i \in 1..Len(d.dums) :
                d.dums[i].serial = "" \/ d.dums[i].configuration_id = ""
         THEN FetchOut(DataError, c)
    ELSE LET serial_list == {d.dums[i].serial : i \in 1..Len(d.dums)}
             config_list == {d.dums[i].configuration_id : i \in 1..Len(d.dums)}
             new_devices == [s \in serial_list |-> DeviceOf(d.dums, s, install_id)]
             new_configs == c.config_map \cap config_list
             new_status == [k \in {k \in DOMAIN c.status_map :
                                      c.status_map[k].serial \in serial_list}
                              |-> c.status_map[k]]
         IN IF serial_list = {} THEN FetchOut(DataError, c)
            ELSE FetchOut("none", [c EXCEPT !.device_map = new_devices,
                                            !.config_map = new_configs,
                                            !.status_map = new_status,
                                            !.user_role = d.user_role])

fetch_device_config(config_id, v, d, c) ==
    IF v # "json" THEN FetchOut(AttributeError, c)
    ELSE IF d.configuration_id # config_id THEN FetchOut(DataError, c)
    ELSE FetchOut("none", [c EXCEPT !.config_map = c.config_map \cup {config_id}])

\* json.loads(raw.get('status') or "{}")
json_loads(status) ==
    IF status.text = "garbage" THEN [raised |-> JSONDecodeError, values |-> EmptyMap]
    ELSE IF status.text = "absent" THEN [raised |-> "none", values |-> EmptyMap]
    ELSE [raised |-> "none", values |-> status.values]
fetch_device_statusses(serial, v, d, c) ==
    IF v # "json" THEN FetchOut(AttributeError, c)
    ELSE LET loaded == json_loads(d)
             found == {item_key \in DOMAIN loaded.values : loaded.values[item_key] # "h"}
             new_map == [k \in {create_id(serial, item_key) : item_key \in found}
                           |-> [serial |-> serial, key |-> k[2],
                                val |-> loaded.values[k[2]]]]
         IN IF loaded.raised # "none" THEN FetchOut(loaded.raised, c)
            ELSE IF found = {} THEN FetchOut(DataError, c)
            ELSE FetchOut("none",
                          [c EXCEPT !.status_map = DictUpdate(c.status_map, new_map)])

fetch_strings(lang, v, d, c) ==
    IF v # "json" THEN FetchOut(AttributeError, c)
    ELSE IF d.messages = {} THEN FetchOut(DataError, c)
    ELSE FetchOut("none", [c EXCEPT !.string_map = d.messages,
                                    !.string_map_lang = d.bundle])

\* the processing of the operation that is running
ProcessRaw(o, v, d, c) ==
    CASE o.name = "fetch_install_list" -> fetch_install_list(v, d, c)
      [] o.name = "fetch_install_details" -> fetch_install_details(o.arg, v, d, c)
      [] o.name = "fetch_device_config" -> fetch_device_config(o.arg, v, d, c)
      [] o.name = "fetch_device_statusses" -> fetch_device_statusses(o.arg, v, d, c)
      [] o.name = "fetch_strings" -> fetch_strings(o.arg, v, d, c)
      [] OTHER -> FetchOut("none", c)      \* change_device_status: raw is not read

\* the name of an operation in the record of how it ended
OpKind(name) ==
    IF name \in {"change_device_status", "fetch_install_details"} THEN name ELSE "fetch"

\* an operation sends its one request and waits for the response
SendFetch(name, arg) ==
    /\ pc = "idle"
    /\ ~closed
    /\ pc' = "fetch"
    /\ op' = [name |-> name, arg |-> arg]
    /\ nreq' = 1
    /\ ndiag' = 0
    /\ attempts' = <<>>
    /\ lastEx' = NoError
    /\ exCookies' = FALSE
    /\ lastReq' = NoReq
    /\ result' = Result(OpKind(name), "running", FALSE, NoError, "none")
    /\ UNCHANGED <<now, cookies, closed, login_method, methods, idx, step, error,
                   ctoken, diagnostics_callback, task2Vars>>

async_fetch_install_list ==
    SendFetch("fetch_install_list", "-") /\ UNCHANGED dataVars
async_fetch_install_details(install_id) ==
    SendFetch("fetch_install_details", install_id) /\ UNCHANGED dataVars
async_fetch_device_config(config_id) ==
    SendFetch("fetch_device_config", config_id) /\ UNCHANGED dataVars
async_fetch_device_statusses(serial) ==
    SendFetch("fetch_device_statusses", serial) /\ UNCHANGED dataVars
async_fetch_strings(lang) ==
    SendFetch("fetch_strings", lang) /\ UNCHANGED dataVars

\* variant: the cache is left for the next fetch to refresh
ChangedStatus_Stale(sm, status_key, value) == sm
\* status._replace(val=value), stored under its key
ChangedStatus(sm, status_key, value) == [sm EXCEPT ![status_key].val = value]

\* async_change_device_status(serial, key, value) up to its request
\* the two early returns: `if not status` and `if status.val == value`
\* variant: only the missing status returns early
NothingToChange_FoundOnly(sm, status_key, value) == status_key \notin DOMAIN sm
NothingToChange(sm, status_key, value) ==
    status_key \notin DOMAIN sm \/ sm[status_key].val = value

async_change_device_status(serial, key, value) ==
    LET status_key == create_id(serial, key) IN
    IF NothingToChange(status_map, status_key, value)
    THEN \* not found, or not changed: returns False, whatever the client's state
         /\ pc = "idle"
         /\ nreq' = 0
         /\ ndiag' = 0
         /\ attempts' = <<>>
         /\ lastEx' = NoError
         /\ exCookies' = FALSE
         /\ lastReq' = NoReq
         /\ result' = Result("change_device_status", "returned False", FALSE, NoError,
                             "none")
         /\ UNCHANGED <<now, cookies, closed, login_method, pc, methods, idx, step,
                        error, ctoken, diagnostics_callback, dataVars, op, task2Vars>>
    ELSE /\ SendFetch("change_device_status", [key |-> status_key, value |-> value])
         /\ status_map' = ChangedStatus(status_map, status_key, value)
         /\ UNCHANGED <<install_map, device_map, config_map, string_map,
                        string_map_lang, user_role>>

\* the response to the request of a fetch / change operation arrives, and the
\* operation runs to its end
\* the request raised: the exception leaves the operation, which catches
\* nothing and undoes nothing
\* variant: the cached statuses are dropped
RequestRaised_DropStatus(ex, c) == FetchOut(ex, [c EXCEPT !.status_map = EmptyMap])
RequestRaised(ex, c) == FetchOut(ex, c)

FetchRespondWith(resp, jar) ==
    /\ pc = "fetch"
    /\ cookies' = jar
    /\ LET r == async_send_request(resp)
           out == IF r.raised # "none" THEN RequestRaised(r.raised, self_cache)
                  ELSE ProcessRaw(op, r.value, resp.data, self_cache)
       IN /\ StoreCache(out.cache)
          /\ result' = IF out.raised = "none"
                       THEN Result(OpKind(op.name), "returned", FALSE, NoError, "none")
                       ELSE Result(OpKind(op.name), "raised", FALSE,
                                   Exc(out.raised, NoMethod, 0, 0), "none")
    /\ pc' = "idle"
    /\ op' = NoOp
    /\ lastReq' = ReqLog(resp)
    /\ ndiag' = IF resp.body = "exception" THEN ndiag
                ELSE update_diagnostics(diagnostics_callback, ndiag)
    /\ UNCHANGED <<now, closed, login_method, methods, idx, step, error,
                   ctoken, nreq, attempts, lastEx, exCookies, diagnostics_callback,
                   task2Vars>>
\* variant: a refused request ends the session
FetchRespond_DropSession(resp) ==
    FetchRespondWith(resp, IF async_send_request(resp).raised = RightsError
                           THEN LogoutCookies(cookies) ELSE cookies)
\* the operation reads no cookie and writes none
FetchRespond(resp) == FetchRespondWith(resp, cookies)

\* the data operations of a client, whatever the backend answers
DataOps(configs, serials) ==
    \/ async_fetch_install_list
    \/ \E install_id \in InstallIds : async_fetch_install_details(install_id)
    \/ \E config_id \in configs : async_fetch_device_config(config_id)
    \/ \E serial \in serials : async_fetch_device_statusses(serial)
    \/ \E lang \in Langs : async_fetch_strings(lang)
    \/ \E serial \in serials, key \in Keys, value \in Vals :
           async_change_device_status(serial, key, value)
NextData ==
    \/ DataOps(ConfigIds, Serials)
    \/ \E resp \in DataResponses(op.name) : FetchRespond(resp)
SpecData == Init /\ [][NextData]_vars

(* ---- operations called after async_close ---- *)
\* what a call of the closed transport does: it fails fast
closed_client_call == Raised(ApiError)
\* an operation that calls the transport first: async_login (get_cookie),
\* async_logout (clear_cookies), the fetches (send_request)
CallAfterClose(name) ==
    /\ pc = "idle"
    /\ closed
    /\ name \in {"login", "logout", "fetch"}
    /\ nreq' = 0
    /\ ndiag' = 0
    /\ attempts' = <<>>
    /\ lastEx' = NoError
    /\ exCookies' = FALSE
    /\ lastReq' = NoReq
    /\ result' = Result(name, "raised", FALSE,
                        Exc(closed_client_call.raised, NoMethod, 0, 0), "none")
    /\ UNCHANGED <<now, cookies, closed, login_method, pc, methods, idx, step, error,
                   ctoken, diagnostics_callback, dataVars, op, task2Vars>>
\* async_change_device_status of a cached status to another value: the cache is
\* updated, then the request is made
ChangeAfterClose(serial, key, value) ==
    LET status_key == create_id(serial, key) IN
    /\ pc = "idle"
    /\ closed
    /\ status_key \in DOMAIN status_map
    /\ status_map[status_key].val # value
    /\ status_map' = ChangedStatus(status_map, status_key, value)
    /\ nreq' = 0
    /\ ndiag' = 0
    /\ attempts' = <<>>
    /\ lastEx' = NoError
    /\ exCookies' = FALSE
    /\ lastReq' = NoReq
    /\ result' = Result("change_device_status", "raised", FALSE,
                        Exc(closed_client_call.raised, NoMethod, 0, 0), "none")
    /\ UNCHANGED <<now, cookies, closed, login_method, pc, methods, idx, step, error,
                   ctoken, diagnostics_callback, install_map, device_map, config_map,
                   string_map, string_map_lang, user_role, op, task2Vars>>
NextClosed ==
    \/ \E serial \in Serials : async_fetch_device_statusses(serial)
    \/ \E resp \in DataResponses(op.name) : FetchRespond(resp)
    \/ \E serial \in Serials, key \in Keys, value \in Vals :
           async_change_device_status(serial, key, value)
    \/ async_close
    \/ \E name \in {"login", "logout", "fetch"} : CallAfterClose(name)
    \/ \E serial \in Serials, key \in Keys, value \in Vals :
           ChangeAfterClose(serial, key, value)
SpecClosed == Init /\ [][NextClosed]_vars

(* ---- sessions and data operations of one client, one after the other, at
        one moment in time and for one device ---- *)
FrameToken == JwtToken(DABPUMPS_API_TOKEN_TIME_MIN + 1)
\* what the backend answers to a request of a login flow
FrameLoginResponses ==
    {resp \in FailResponses \cup JsonResponses :
        /\ resp.res \in {"absent", "ERROR"}
        /\ resp.code \in {"", "FORBIDDEN"}
        /\ resp.access_token \in {NoToken, FrameToken}
        /\ resp.res = "ERROR" <=> resp.code = "FORBIDDEN"}
\* what it answers to the request of a data operation
FramePayloads(name) ==
    CASE name = "fetch_install_list" -> {d \in InstallListData : d.values # {}}
      [] name = "fetch_install_details" ->
            {d \in InstallDetailsData :
                /\ d.installation_id \in InstallIds
                /\ d.dums = <<[serial |-> "s1", configuration_id |-> "c1"]>>
                /\ d.user_role = "INSTALLER"}
      [] name = "fetch_device_statusses" ->
            {d \in StatusData : d.text = "json" /\ DOMAIN d.values = Keys
                                  /\ \A k \in Keys : d.values[k] = "v1"}
      [] name = "fetch_strings" -> {d \in StringsData : d.messages # {}}
      [] OTHER -> Payloads(name)
FrameDataResponses(name) ==
    {ForbiddenResponse}
    \cup {DataResp(TRUE, "json", "absent", "", d) : d \in FramePayloads(name)}
NextFrame ==
    \/ async_login
    \/ \E resp \in FrameLoginResponses : Respond(resp)
    \/ async_logout
    \/ DataOps({"c1"}, {"s1"})
    \/ \E resp \in FrameDataResponses(op.name) : FetchRespond(resp)
SpecFrame == Init /\ [][NextFrame]_vars

(* ---- two tasks call async_login on one client ---- *)
\* the locals of the second task when its call has ended
EndLogin2(how) ==
    /\ pc2' = "idle"
    /\ result2' = how
    /\ methods2' = CandidateList(NoMethod)
    /\ idx2' = 0
    /\ step2' = 0
    /\ error2' = NoError
    /\ ctoken2' = NoToken
\* async_login of the second task up to its first request (or to its return)
async_login2 ==
    /\ pc2 = "idle"
    /\ ~closed
    /\ LET token == client_get_cookie(cookies) IN
       IF token # NoToken /\ ~Decodable(token) THEN
            /\ EndLogin2("raised")
            /\ UNCHANGED <<cookies, login_method>>
       ELSE IF token # NoToken /\ TokenStillValid(token, now) THEN
            /\ EndLogin2("reused")
            /\ UNCHANGED <<cookies, login_method>>
       ELSE
            LET ms == CandidateList(login_method) IN
            /\ cookies' = LogoutCookies(cookies)
            /\ error2' = NoError
            /\ methods2' = ms
            /\ idx2' = NextCandidate(ms, 1)
            /\ step2' = 1
            /\ ctoken2' = NoToken
            /\ pc2' = "await"
            /\ result2' = "running"
            /\ UNCHANGED login_method
    /\ UNCHANGED <<now, closed, pc, methods, idx, step, error, ctoken, nreq, attempts,
                   lastEx, exCookies, lastReq, result, diagVars, dataVars, op>>
\* the response to the second task's request arrives
Respond2(resp) ==
    /\ pc2 = "await"
    /\ LET m == methods2[idx2]
           out == LoginFlow(m, step2, resp, client_receive(cookies, resp), ctoken2)
       IN
       CASE out.status = "next" ->
                /\ step2' = 2
                /\ ctoken2' = out.token
                /\ cookies' = out.cookies
                /\ UNCHANGED <<login_method, pc2, methods2, idx2, error2, result2>>
         [] out.status = "ok" ->
                /\ login_method' = RememberMethod(login_method, m)
                /\ cookies' = out.cookies
                /\ EndLogin2("returned")
         [] out.status = "raise" ->
                LET ex == Exc(out.kind, m, step2, 0)
                    err == CapturedError(error2, ex)
                    j == NextCandidate(methods2, idx2 + 1)
                IN  /\ cookies' = LogoutCookies(out.cookies)
                    /\ IF j # 0 THEN
                            /\ error2' = err
                            /\ idx2' = j
                            /\ step2' = 1
                            /\ ctoken2' = NoToken
                            /\ UNCHANGED <<login_method, pc2, methods2, result2>>
                       ELSE
                            /\ EndLogin2(IF err # NoError THEN "raised" ELSE "returned")
                            /\ UNCHANGED login_method
    /\ UNCHANGED <<now, closed, pc, methods, idx, step, error, ctoken, nreq, attempts,
                   lastEx, exCookies, lastReq, result, diagVars, dataVars, op>>
\* the backend refuses a request, or answers it with a token
ConcLoginResponses == {resp \in FrameLoginResponses : resp.res = "absent"}
NextConc ==
    \/ async_login
    \/ \E resp \in ConcLoginResponses : Respond(resp)
    \/ async_login2
    \/ \E resp \in ConcLoginResponses : Respond2(resp)
    \/ \E serial \in {"s1"} : async_fetch_device_statusses(serial)
    \/ \E resp \in FrameDataResponses(op.name) : FetchRespond(resp)
SpecConc == Init /\ [][NextConc]_vars

\* a client built on a caller-supplied HTTP engine: its cookie jar may
\* already hold a token cookie
SuppliedCookies == {[token |-> t, other |-> FALSE] : t \in {NoToken} \cup Tokens}
InitSupplied ==
    /\ cookies \in SuppliedCookies
    /\ InitClient
SpecSupplied == InitSupplied /\ [][Next]_vars

TypeOK ==
    /\ now \in 0..MaxTime
    /\ cookies \in CookieStores
    /\ closed \in BOOLEAN
    /\ login_method \in API_LOGIN \cup {NoMethod}
    /\ pc \in {"idle", "await", "fetch"}
    /\ diagnostics_callback \in BOOLEAN
    /\ ndiag \in 0..8
    /\ install_map \subseteq InstallIds
    /\ DOMAIN device_map \subseteq Serials
    /\ config_map \subseteq ConfigIds
    /\ DOMAIN status_map \subseteq {create_id(serial, key) : serial \in Serials, key \in Keys}
    /\ \A k \in DOMAIN status_map : status_map[k].val \in Vals
    /\ string_map \subseteq {"m1"}
    /\ string_map_lang \in Langs \cup {"None"}
    /\ user_role \in Roles
    /\ pc = "fetch" <=> op # NoOp
    /\ pc2 \in {"idle", "await"}
    /\ result2 \in {"none", "running", "reused", "returned", "raised"}
    /\ idx \in 0..5
    /\ step \in 0..2
    /\ nreq \in 0..10

(* ======================= claims ======================= *)

\* the token cookie decodes and its expiry is more than 10 seconds ahead
ValidTokenHeld ==
    /\ cookies.token.kind = "jwt"
    /\ cookies.token.hasExp
    /\ cookies.token.exp > now + 10

\* C1: a login() called while the cookie store holds a token whose decoded
\* expiry is more than 10 seconds in the future returns normally, issues no
\* request, leaves the cookies and the remembered login method as they were.
C1_TokenReuse ==
    [][(async_login /\ ValidTokenHeld) =>
          /\ pc' = "idle"
          /\ result'.op = "login" /\ result'.status = "returned"
          /\ nreq' = 0
          /\ cookies' = cookies
          /\ login_method' = login_method]_vars
\* a second login() right after a successful one reused the token
W_C1 ==
    /\ pc = "idle"
    /\ result.op = "login" /\ result.status = "returned" /\ result.reuse
    /\ result.after = "login"
    /\ login_method \in API_LOGIN
    /\ nreq = 0

\* C2: when a login() that does not reuse the token issues the first request
\* of its first flow, the cookie store is empty.
C2_ClearedBeforeFirstFlow ==
    (pc = "await" /\ nreq = 1) => cookies = EmptyCookies
\* the first request of a login() that follows a successful login is in flight
W_C2 ==
    /\ pc = "await" /\ nreq = 1
    /\ result.after = "login"
    /\ login_method \in API_LOGIN
    /\ now > 0

\* C3: while a login() runs its flows and a method is remembered from an
\* earlier successful login, the first flow it attempted is that method.
C3_LastMethodFirst ==
    (pc = "await" /\ login_method \in API_LOGIN) => attempts[1] = login_method
\* the remembered method is the last of the static order and is attempted first
W_C3 ==
    /\ pc = "await"
    /\ login_method = DCONNECT_WEB
    /\ attempts = <<DCONNECT_WEB>>

\* C4: when login() raises after all its attempts failed, the error it raises
\* is the exception object of the last attempt.
C4_LastErrorRaised ==
    (pc = "idle" /\ result.op = "login" /\ result.status = "raised" /\ attempts # <<>>) =>
        /\ result.err = lastEx
        /\ result.err.att = Len(attempts)
        /\ result.err.method = attempts[Len(attempts)]
\* all attempts failed, an earlier one with another kind of error than the last
W_C4 ==
    /\ pc = "idle"
    /\ result.op = "login" /\ result.status = "raised"
    /\ Len(attempts) >= 4
    /\ result.err.kind = AuthError
    /\ lastReq.success

\* C5: within one login() no method is attempted twice.
C5_NoDuplicateAttempts ==
    \A i, j \in DOMAIN attempts : i # j => attempts[i] # attempts[j]

\* C6: the response that makes a candidate succeed ends login(): the method
\* is remembered, login() returns, no further request is issued and the
\* cookie store keeps the token the flow left in it.
FlowOutcome(resp) ==
    LoginFlow(methods[idx], step, resp, client_receive(cookies, resp), ctoken)
C6_SuccessEndsLogin ==
    [][\A resp \in Responses :
          (Respond(resp) /\ FlowOutcome(resp).status = "ok") =>
              /\ login_method' = methods[idx]
              /\ pc' = "idle"
              /\ result'.op = "login" /\ result'.status = "returned"
              /\ attempts' = attempts
              /\ nreq' = nreq
              /\ cookies' = FlowOutcome(resp).cookies
              /\ cookies'.token # NoToken]_vars
\* a later candidate succeeded after the remembered one failed
W_C6 ==
    /\ pc = "idle"
    /\ result.op = "login" /\ result.status = "returned" /\ ~result.reuse
    /\ Len(attempts) = 3
    /\ login_method = DABLIVE_APP_0
    /\ attempts[1] = DCONNECT_APP
    /\ cookies.token # NoToken

\* C7: a flow whose 2xx response passed _async_send_request but lacks the
\* flow's token-bearing item raises AuthError, with no cookie in the store.
C7_MissingTokenIsAuthError ==
    (lastEx # NoError /\ lastReq.success /\ lastReq.raised = "none") =>
        /\ lastEx.kind = AuthError
        /\ ~exCookies

\* C8: a login() on a fresh client in which all four flows failed, the last
\* one because the backend answered the POST of the credentials with a
\* non-2xx status, raises AuthError, the error of the last attempted method.
C8_InvalidCredentialsAuthError ==
    (/\ pc = "idle"
     /\ result.op = "login" /\ result.status = "raised"
     /\ login_method = NoMethod
     /\ Len(attempts) = 4
     /\ lastEx.method = DCONNECT_WEB /\ lastEx.step = 2
     /\ ~lastReq.success) =>
        /\ result.err.kind = AuthError
        /\ result.err = lastEx

C10_LogoutThenLogin ==
    [][/\ async_logout =>
            /\ cookies' = EmptyCookies
            /\ nreq' = 0
            /\ pc' = "idle"
            /\ closed' = closed
       /\ (async_login /\ result.op = "logout") =>
            /\ pc' = "await"
            /\ nreq' = 1]_vars
\* a login() that followed the logout() of a logged-in client succeeded
W_C10 ==
    /\ pc = "idle"
    /\ result.op = "login" /\ result.status = "returned" /\ ~result.reuse
    /\ result.after = "logout"
    /\ cookies.token # NoToken
    /\ ~closed

\* C11: no state of an open client makes login() fail for good: a login()
\* call either returns on the token in the store or goes on to its flows,
\* where a backend that accepts the credentials lets it succeed; it never
\* raises before it has tried a flow.
C11_LoginNeverStuck ==
    [][async_login => result'.status \in {"returned", "running"}]_vars

\* C12: whenever login() has returned normally, login_method is one of the
\* four methods.
C12_MethodSetAfterLogin ==
    (pc = "idle" /\ result.op = "login" /\ result.status = "returned") =>
        login_method \in API_LOGIN

\* C15: every transport-level failure of a request, a non-2xx response or an
\* exception of the transport, is raised by the request as GenericApiError.
C15_TransportFailureIsApiError ==
    (lastReq # NoReq /\ ~lastReq.success) => lastReq.raised = ApiError

\* C16: every error login() raises is an AuthError, a RightsError, a
\* GenericApiError or a DataError.
C16_ClosedTaxonomy ==
    (pc = "idle" /\ result.op = "login" /\ result.status = "raised") =>
        result.err.kind \in {AuthError, RightsError, ApiError, DataError}


\* C17: with a diagnostics callback registered, the callback is called exactly
\* once for every transport attempt and only for transport attempts: when a
\* login() has ended, the callback was called as often as requests were sent.
C17_DiagnosticsPerAttempt ==
    (pc = "idle" /\ diagnostics_callback /\ result.op = "login"
        /\ result.status \in {"returned", "raised"}) => ndiag = nreq


\* the caches all hold data
CachesFilled ==
    /\ install_map # {}
    /\ device_map # EmptyMap
    /\ config_map # {}
    /\ status_map # EmptyMap
    /\ string_map # {}

\* C13: login() and logout() never modify the cached data maps: every step of
\* a login() or a logout(), successful or failed, leaves install_map,
\* device_map, config_map, status_map and string_map (and the user role) as
\* they were.
C13_LoginKeepsCaches ==
    [][(pc \in {"idle", "await"} /\ result'.op \in {"login", "logout"})
          => UNCHANGED dataVars]_vars
\* a login() has succeeded on a client whose caches were filled before
W_C13 ==
    /\ pc = "idle"
    /\ result.op = "login"
    /\ result.status = "returned"
    /\ ~result.reuse
    /\ CachesFilled

\* C14: a fetch or status-change operation that receives a FORBIDDEN response
\* raises RightsError to its caller and does nothing else: no further
\* request, no login, the cookies and the remembered login method unchanged.
C14_ForbiddenOnlyRaises ==
    [][(pc = "fetch" /\ lastReq'.success /\ lastReq'.body = "json"
            /\ lastReq'.res = "ERROR" /\ lastReq'.code = "FORBIDDEN")
          => /\ pc' = "idle"
             /\ result'.status = "raised"
             /\ result'.err.kind = RightsError
             /\ nreq' = nreq
             /\ cookies' = cookies
             /\ login_method' = login_method]_vars
\* an operation of a logged-in client has been refused
W_C14 ==
    /\ pc = "idle"
    /\ result.op \in {"fetch", "change_device_status"}
    /\ result.status = "raised"
    /\ result.err.kind = RightsError
    /\ lastReq.code = "FORBIDDEN"
    /\ cookies.token # NoToken
    /\ login_method \in API_LOGIN

\* C20: a fetch operation that raises DataError leaves every cached map and
\* the cached user role exactly as they were before the call.
C20_DataErrorKeepsCaches ==
    [][(pc = "fetch" /\ result'.status = "raised" /\ result'.err.kind = DataError)
          => UNCHANGED dataVars]_vars
\* a fetch has raised DataError on a client whose caches were filled
W_C20 ==
    /\ pc = "idle"
    /\ result.op = "fetch"
    /\ result.status = "raised"
    /\ result.err.kind = DataError
    /\ CachesFilled
    /\ user_role = "INSTALLER"


\* C19: after close() every later call of another operation fails with
\* GenericApiError; none silently does nothing or returns normally.
C19_ClosedFailsFast ==
    (closed /\ pc = "idle" /\ result.op # "close") =>
        (result.status = "raised" /\ result.err.kind = ApiError)


\* the number of requests that are in flight
InFlight ==
    (IF pc \in {"await", "fetch"} THEN 1 ELSE 0) + (IF pc2 = "await" THEN 1 ELSE 0)
\* C18: at most one network call is in flight per client instance at any
\* time, also when two tasks call operations of the same instance that
\* interleave at their await points.
C18_OneCallInFlight == InFlight <= 1


\* C21: change_device_status(serial, key, value) for a status cached under
\* (serial, key) with another value, whose request succeeds, has issued
\* exactly one request, returns True, and leaves the new value in the cached
\* status for (serial, key).
C21_ChangeStoresValue ==
    [][(pc = "fetch" /\ op.name = "change_device_status"
            /\ lastReq'.raised = "none")
          => /\ pc' = "idle"
             /\ nreq' = 1
             /\ result'.op = "change_device_status"
             /\ result'.status = "returned"
             /\ op.arg.key \in DOMAIN status_map'
             /\ status_map'[op.arg.key].val = op.arg.value]_vars
\* the change of a cached status has succeeded
W_C21 ==
    /\ pc = "idle"
    /\ result.op = "change_device_status"
    /\ result.status = "returned"
    /\ nreq = 1
    /\ lastReq.success
    /\ \E k \in DOMAIN status_map : status_map[k].val = "v2"


\* C22: inside login() the cookie store is cleared after every failed method
\* attempt: the first request of every later candidate is sent with an empty
\* cookie store, and when login() raises because all candidates failed the
\* cookie store is empty.
C22_ClearedAfterFailure ==
    /\ (pc = "await" /\ step = 1 /\ Len(attempts) > 1) => cookies = EmptyCookies
    /\ (pc = "idle" /\ result.op = "login" /\ result.status = "raised"
            /\ attempts # <<>>) => cookies = EmptyCookies
\* a failed attempt has left cookies behind, and the next candidate's first
\* request is in flight
W_C22 ==
    /\ pc = "await"
    /\ step = 1
    /\ Len(attempts) > 1
    /\ exCookies


FixedOrder == <<DABLIVE_APP_1, DABLIVE_APP_0, DCONNECT_APP, DCONNECT_WEB>>
\* C24: a login() with no remembered method attempts the flows in the order
\* DABLIVE_APP_1, DABLIVE_APP_0, DCONNECT_APP, DCONNECT_WEB, and attempts a
\* method only after every method before it has failed in the same call.
C24_FixedOrder ==
    (result.op = "login" /\ login_method = NoMethod /\ attempts # <<>>) =>
        /\ Len(attempts) <= Len(FixedOrder)
        /\ attempts = SubSeq(FixedOrder, 1, Len(attempts))
        /\ (pc = "await" /\ Len(attempts) > 1) =>
                /\ lastEx.att = Len(attempts) - 1
                /\ lastEx.method = attempts[Len(attempts) - 1]
\* the last flow of the order is being attempted
W_C24 ==
    /\ pc = "await"
    /\ login_method = NoMethod
    /\ attempts = FixedOrder


\* the remaining lifetime of a decoded token, a missing exp counting as 0
Remaining(t, time) == (IF t.hasExp THEN t.exp ELSE 0) - time
\* C25: the token-reuse test is strict: a login() that finds a token with
\* exp - now > 10 reuses it, and one that finds a token with exp - now <= 10
\* (exactly 10 included), an expired token or a token without exp does not:
\* it clears the cookies and sends the first request of a flow.
C25_StrictMargin ==
    [][(async_login /\ cookies.token.kind = "jwt") =>
          IF Remaining(cookies.token, now) > 10
          THEN result'.status = "returned" /\ result'.reuse /\ nreq' = 0
          ELSE /\ ~result'.reuse
               /\ pc' = "await"
               /\ nreq' = 1
               /\ cookies' = EmptyCookies]_vars
\* a login() found a token with exactly 10 seconds left and has sent the
\* first request of a flow
W_C25 ==
    /\ pc = "await"
    /\ nreq = 1
    /\ result.seen.kind = "jwt"
    /\ result.seen.hasExp
    /\ result.seen.exp - result.at = 10
    /\ cookies = EmptyCookies


\* a request of the two-step flow is in flight
FlowCAwaits == pc = "await" /\ methods[idx] = DCONNECT_APP
\* what the two-step flow does with a response to the request in flight:
\* the cookie store the transport leaves, and how the flow goes on
FlowCOn(resp) ==
    [jar |-> client_receive(cookies, resp),
     out |-> login_dconnect_app(step, resp, client_receive(cookies, resp), ctoken)]
\* the flow stores a cookie only at the end of step 2, and only when the
\* request of step 2 returned without error; a step 1 that fails or finds no
\* access token raises and does not go on to step 2
FlowCCookieLast(resp) ==
    LET f == FlowCOn(resp) IN
    /\ f.out.cookies # f.jar =>
            (step = 2 /\ f.out.status = "ok" /\ resp.success /\ resp.body # "exception")
    /\ (step = 1 /\ (~resp.success \/ resp.access_token = NoToken)) =>
            f.out.status = "raise"
    /\ ~resp.success => f.out.status = "raise"

C27_CancelPropagates ==
    [][(pc = "await" /\ lastEx'.kind = CancelledError) =>
          /\ pc' = "idle"
          /\ result'.status = "raised"
          /\ result'.err.kind = CancelledError
          /\ nreq' = nreq
          /\ attempts' = attempts
          /\ cookies' = cookies
          /\ login_method' = login_method]_vars
\* a login() was cancelled in the middle of a flow, with a cookie in the
\* store and a method remembered
W_C27 ==
    /\ pc = "idle"
    /\ result.op = "login"
    /\ result.status = "raised"
    /\ result.err.kind = CancelledError
    /\ result.err.step = 2
    /\ cookies # EmptyCookies
    /\ login_method \in API_LOGIN


\* C28: the remembered login method changes only in the step in which a
\* flow of async_login succeeds, and then to the method of that flow: no
\* logout, token-reuse login, login in which every method fails, fetch or
\* status change alters it, and it never goes back to unset.
C28_MethodChangesOnSuccessOnly ==
    [][login_method' # login_method =>
          /\ pc = "await"
          /\ pc' = "idle"
          /\ result'.op = "login"
          /\ result'.status = "returned"
          /\ ~result'.reuse
          /\ login_method' = methods[idx]
          /\ login_method' \in API_LOGIN]_vars
\* with a method remembered, a login after a logout has failed on every
\* method
W_C28 ==
    /\ pc = "idle"
    /\ result.op = "login"
    /\ result.status = "raised"
    /\ result.after = "logout"
    /\ login_method = DCONNECT_APP
    /\ CachesFilled


\* C29: when an async_login that runs alone on its client has returned
\* normally, the token cookie is in the cookie store; a return that did not
\* reuse a token follows a request that succeeded, made for the method now
\* remembered, so async_login never returns normally after every candidate
\* failed or without a token.
C29_ReturnMeansToken ==
    (pc = "idle" /\ result.op = "login" /\ result.status = "returned") =>
        /\ cookies.token # NoToken
        /\ result.err = NoError
        /\ result.reuse => nreq = 0
        /\ ~result.reuse =>
              /\ attempts # <<>>
              /\ lastReq.raised = "none"
              /\ login_method = attempts[Len(attempts)]
              /\ (lastEx # NoError => lastEx.att < Len(attempts))
\* the web flow, tried last after the three other methods failed, has
\* returned with the token cookie that the server set
W_C29 ==
    /\ pc = "idle"
    /\ result.op = "login"
    /\ result.status = "returned"
    /\ ~result.reuse
    /\ login_method = DCONNECT_WEB
    /\ Len(attempts) = 4
    /\ cookies.token # NoToken


\* C30: when two async_login calls of one client interleave, a login that
\* has returned normally keeps its token cookie while the other call runs
\* on: no step of the other call removes the token that the first has
\* stored and reported as a success.
C30_OtherLoginKeepsToken ==
    [][/\ (/\ pc = "idle" /\ result.op = "login" /\ result.status = "returned"
           /\ result' = result
           /\ pc2 = "await"
           /\ cookies.token # NoToken) => cookies'.token # NoToken
       /\ (/\ pc2 = "idle" /\ result2 \in {"returned", "reused"}
           /\ result2' = result2
           /\ pc = "await"
           /\ cookies.token # NoToken) => cookies'.token # NoToken]_vars


\* the requests a flow issues: one per step
FlowSteps(m) == IF m \in {DCONNECT_APP, DCONNECT_WEB} THEN 2 ELSE 1
\* the most requests a sequence of attempts can have issued
MaxRequests(att) ==
    Len(att) + Cardinality({i \in DOMAIN att : FlowSteps(att[i]) = 2})
\* C31: every async_login terminates when each of its requests is answered:
\* it makes at most as many attempts as the candidate list is long, every
\* request it issues belongs to the next step of the same flow or to the
\* first step of a later candidate (no step is issued twice), a flow issues
\* at most one request (single-step flows) or two (two-step and web flows),
\* and a login that awaits a response eventually ends.
C31_LoginTerminates ==
    /\ [][/\ Len(attempts') <= Len(methods')
          /\ Len(attempts') <= nreq'
          /\ nreq' <= MaxRequests(attempts')
          /\ pc' = "await" => step' \in 1..FlowSteps(methods'[idx'])
          /\ (pc = "await" /\ nreq' # nreq) =>
                /\ pc' = "await"
                /\ nreq' = nreq + 1
                /\ \/ idx' = idx /\ step' = step + 1 /\ attempts' = attempts
                   \/ idx' > idx /\ step' = 1 /\ Len(attempts') = Len(attempts) + 1]_vars
    /\ (pc = "await") ~> (pc = "idle")
\* a login with a method remembered has ended after it went through all five
\* candidates and issued eight requests
W_C31 ==
    /\ pc = "idle"
    /\ result.op = "login"
    /\ result.status \in {"returned", "raised"}
    /\ Len(attempts) = 5
    /\ nreq = 8


\* C32: a call of async_change_device_status for which no status is cached
\* under (serial, key), or whose value equals the cached one, returns False,
\* sends no request and leaves status_map and the other caches as they were.
C32_NothingToChange ==
    [][\A serial \in Serials, key \in Keys, value \in Vals :
          (/\ async_change_device_status(serial, key, value)
           /\ \/ create_id(serial, key) \notin DOMAIN status_map
              \/ status_map[create_id(serial, key)].val = value) =>
              /\ pc' = "idle"
              /\ result'.op = "change_device_status"
              /\ result'.status = "returned False"
              /\ nreq' = 0
              /\ lastReq' = NoReq
              /\ status_map' = status_map
              /\ UNCHANGED dataVars]_vars
\* a call has returned False while a status was cached for every serial, so
\* for the value that was already there
W_C32 ==
    /\ pc = "idle"
    /\ result.op = "change_device_status"
    /\ result.status = "returned False"
    /\ nreq = 0
    /\ \A serial \in Serials : create_id(serial, "k1") \in DOMAIN status_map


\* the request of a status change is awaited
ChangeAwaits == pc = "fetch" /\ op.name = "change_device_status"
\* the cached status of the change that is awaited is the new value
ChangeCached(sm) == op.arg.key \in DOMAIN sm /\ sm[op.arg.key].val = op.arg.value
ListedSerials(d) == {d.dums[i].serial : i \in DOMAIN d.dums}
ListedConfigs(d) == {d.dums[i].configuration_id : i \in DOMAIN d.dums}
====
